---- MODULE Spec2Model ----
\* A model of the two scripts of the repository:
\*   src/tool_versions.py        get_command_version_string and the SOFTWARE_VERSIONS table
\*   src/list-python-modules.py  the module lister
\* Python str values are sequences of one-character strings, bytes values are
\* sequences of byte codes, and None is a tuple that is no str.
EXTENDS Integers, Sequences, FiniteSets, TLC

VARIABLES
    \* a caller of get_command_version_string
    pc,                 \* position of the caller
    call,               \* the arguments of the current call
    env,                \* what the machine does with the probed command
    proc,               \* the process as captured: stdout, stderr, returncode
    outcome,            \* what the call did: a return value or a raised exception
    \* loading the module tool_versions
    load_pc,            \* the statement group the load is at
    tool,               \* index in ToolSpecs of the next probe
    bin_sh,             \* which shell /bin/sh is on the machine
    SOFTWARE_VERSIONS,  \* the table, a function on the keys written so far
    rpy2,               \* the state of the R binding on the machine
    load_exc,           \* the exception that ended the load, if any
    \* a run of list-python-modules.py
    lister_pc,          \* the statement the script is at
    fs,                 \* the directory tree and the tools of the machine
    python_files,       \* line 10
    snakefiles,         \* line 12
    idx,                \* position in the list a for loop iterates over
    tempf,              \* the text written to the temporary file
    opened,             \* the paths given to open()
    invoked,            \* the paths given to snakemake
    compiler_failed,    \* some snakemake invocation did not succeed
    printed,            \* the lines printed
    lister_exc          \* the exception that ended the run, if any

probeVars == <<pc, call, env, proc, outcome>>
loadVars == <<load_pc, tool, bin_sh, SOFTWARE_VERSIONS, rpy2, load_exc>>
listerVars == <<lister_pc, fs, python_files, snakefiles, idx, tempf, opened, invoked,
                compiler_failed, printed, lister_exc>>
vars == <<probeVars, loadVars, listerVars>>

-----------------------------------------------------------------------------
\* Text and bytes

None == <<"None">>

Ord ==
    "\n" :> 10 @@ " " :> 32 @@ "!" :> 33 @@ "-" :> 45 @@ "." :> 46 @@ "/" :> 47 @@
    "0" :> 48 @@ "1" :> 49 @@ "2" :> 50 @@ "3" :> 51 @@ "4" :> 52 @@ "5" :> 53 @@
    "6" :> 54 @@ "7" :> 55 @@ "8" :> 56 @@ "9" :> 57 @@ ":" :> 58 @@ "A" :> 65 @@
    "D" :> 68 @@ "I" :> 73 @@ "R" :> 82 @@ "S" :> 83 @@ "T" :> 84 @@ "V" :> 86 @@
    "_" :> 95 @@ "a" :> 97 @@ "b" :> 98 @@ "c" :> 99 @@ "d" :> 100 @@ "e" :> 101 @@
    "f" :> 102 @@ "g" :> 103 @@ "h" :> 104 @@ "i" :> 105 @@ "k" :> 107 @@ "l" :> 108 @@
    "m" :> 109 @@ "n" :> 110 @@ "o" :> 111 @@ "p" :> 112 @@ "q" :> 113 @@ "r" :> 114 @@
    "s" :> 115 @@ "t" :> 116 @@ "u" :> 117 @@ "v" :> 118 @@ "w" :> 119 @@
    "y" :> 121

\* The byte 0xFF: invalid in UTF-8, the letter U+00FF in Latin-1.
NonAsciiBytes == {255}
CharFF == "U+00FF"

\* The bytes a child process writes for an ASCII text.
Bytes(s) == [i \in 1..Len(s) |-> Ord[s[i]]]

Chr(b) == CHOOSE c \in DOMAIN Ord : Ord[c] = b

DecodeError == <<"UnicodeDecodeError">>

\* bytes.decode(encoding) for the encodings "utf-8" (sys.getdefaultencoding())
\* and "latin-1", over the byte codes of Ord and 0xFF.
decode(output, encoding) ==
    IF encoding = "utf-8" /\ \E i \in 1..Len(output) : output[i] >= 128
    THEN DecodeError
    ELSE [i \in 1..Len(output) |->
            IF output[i] \in NonAsciiBytes THEN CharFF ELSE Chr(output[i])]

-----------------------------------------------------------------------------
\* Regular expressions of the shape the module uses:
\*   ['^'] pre (group)    pre a sequence of literal characters and \s+,
\*                        group one of \S+, (\d+\.)*\d+, \d+(\.\d+)*,
\*                        named 'version' or unnamed.

WS == "\\s+"
Digits == {"0", "1", "2", "3", "4", "5", "6", "7", "8", "9"}

InClass(c, cls) ==
    CASE cls = "s" -> c \in {" ", "\n"}
      [] cls = "S" -> c \notin {" ", "\n"}
      [] cls = "d" -> c \in Digits

\* Index of the last character of the longest run of cls starting at i
\* (i - 1 when there is none): a greedy quantifier.
RECURSIVE RunEnd(_, _, _)
RunEnd(text, i, cls) ==
    IF i <= Len(text) /\ InClass(text[i], cls)
    THEN RunEnd(text, i + 1, cls)
    ELSE i - 1

\* Where the group starts when pre[k..] matches text at i, 0 when it does not.
RECURSIVE MatchPre(_, _, _, _)
MatchPre(pre, k, text, i) ==
    IF k > Len(pre) THEN i
    ELSE IF pre[k] = WS
    THEN LET e == RunEnd(text, i, "s")
         IN IF e < i THEN 0 ELSE MatchPre(pre, k + 1, text, e + 1)
    ELSE IF i <= Len(text) /\ text[i] = pre[k]
    THEN MatchPre(pre, k + 1, text, i + 1)
    ELSE 0

\* Greedy end of digits(.digits)* starting at j, 0 when no digit is there.
RECURSIVE DottedEnd(_, _)
DottedEnd(text, j) ==
    LET e == RunEnd(text, j, "d")
    IN IF e < j THEN 0
       ELSE IF e + 1 <= Len(text) /\ text[e + 1] = "."
       THEN LET r == DottedEnd(text, e + 2) IN IF r = 0 THEN e ELSE r
       ELSE e

GroupEnd(cls, text, j) ==
    IF cls = "dotted" THEN DottedEnd(text, j)
    ELSE LET e == RunEnd(text, j, "S") IN IF e < j THEN 0 ELSE e

NoMatch == [start |-> 0, gstart |-> 0, gend |-> 0]

MatchAt(regexp, text, i) ==
    LET j == MatchPre(regexp.pre, 1, text, i)
    IN IF j = 0 THEN NoMatch
       ELSE LET k == GroupEnd(regexp.cls, text, j)
            IN IF k = 0 THEN NoMatch ELSE [start |-> i, gstart |-> j, gend |-> k]

RECURSIVE SearchFrom(_, _, _)
SearchFrom(regexp, text, i) ==
    IF i > Len(text) THEN NoMatch
    ELSE LET m == MatchAt(regexp, text, i)
         IN IF m # NoMatch THEN m
            ELSE IF regexp.anchored THEN NoMatch
            ELSE SearchFrom(regexp, text, i + 1)

\* re.match: the mutant of re_search that only tries the start of the text.
re_match(regexp, text) == MatchAt(regexp, text, 1)

\* re.search(regexp, output): the leftmost match, None (NoMatch) when there is none.
re_search(regexp, text) == SearchFrom(regexp, text, 1)

-----------------------------------------------------------------------------
\* get_command_version_string

NoExc == "NoException"
Return(v) == [kind |-> "return", value |-> v, exc |-> NoExc]
Raise(e) == [kind |-> "raise", value |-> None, exc |-> e]

\* What the shell writes to stderr when the command's program is not found;
\* the text depends on which shell /bin/sh is.
ShNotFoundDash(argv0) ==
    <<"/", "b", "i", "n", "/", "s", "h", ":", " ", "1", ":", " ">> \o argv0
        \o <<":", " ", "n", "o", "t", " ", "f", "o", "u", "n", "d", "\n">>
ShNotFoundBash(argv0) ==
    <<"/", "b", "i", "n", "/", "s", "h", ":", " ">> \o argv0
        \o <<":", " ", "c", "o", "m", "m", "a", "n", "d", " ",
             "n", "o", "t", " ", "f", "o", "u", "n", "d", "\n">>
ShNotFound(shell, argv0) ==
    IF shell = "dash" THEN ShNotFoundDash(argv0) ELSE ShNotFoundBash(argv0)

Process(out, err, rc) == [exc |-> NoExc, stdout |-> out, stderr |-> err, returncode |-> rc]

\* subprocess.check_output's behaviour: the mutant of Popen that turns a
\* non-zero exit status into an exception.
PopenChecked(cmd, e) ==
    IF ~cmd.shell /\ ~e.found
    THEN [exc |-> "FileNotFoundError", stdout |-> <<>>, stderr |-> <<>>, returncode |-> 0]
    ELSE LET p == IF e.found THEN Process(e.stdout, e.stderr, e.returncode)
                  ELSE Process(<<>>, Bytes(ShNotFound(e.sh, cmd.argv0)), 127)
         IN IF p.returncode # 0
            THEN [exc |-> "CalledProcessError", stdout |-> <<>>, stderr |-> <<>>,
                  returncode |-> p.returncode]
            ELSE p

\* Popen(cmd, shell=isinstance(cmd, str), ...) and p.communicate(): a str command
\* is run by /bin/sh -c, which is launched even when the command's program is
\* missing (the shell then reports it on stderr and exits 127); a list command
\* is executed directly and a missing program raises FileNotFoundError.
Popen(cmd, e) ==
    IF cmd.shell
    THEN IF e.found
         THEN Process(e.stdout, e.stderr, e.returncode)
         ELSE Process(<<>>, Bytes(ShNotFound(e.sh, cmd.argv0)), 127)
    ELSE IF e.found
         THEN Process(e.stdout, e.stderr, e.returncode)
         ELSE [exc |-> "FileNotFoundError", stdout |-> <<>>, stderr |-> <<>>,
               returncode |-> 0]

\* The mutant of SelectOutput with the two streams exchanged.
SelectOutputSwapped(use_stderr, stdout, stderr) ==
    IF use_stderr = "None" THEN stderr \o stdout
    ELSE IF use_stderr = "True" THEN stdout
    ELSE stderr

SelectOutput(use_stderr, stdout, stderr) ==
    IF use_stderr = "None" THEN stdout \o stderr
    ELSE IF use_stderr = "True" THEN stderr
    ELSE stdout

\* return prefix + m.group("version") + suffix
FormatVersion(prefix, m_version, suffix) == prefix \o m_version \o suffix

\* The body of the try block.
TryBody(cmd, regexp, prefix, suffix, use_stderr, encoding, e) ==
    LET p == Popen(cmd, e)
    IN IF p.exc # NoExc THEN Raise(p.exc)
       ELSE LET output == decode(SelectOutput(use_stderr, p.stdout, p.stderr), encoding)
            IN IF output = DecodeError THEN Raise("UnicodeDecodeError")
               ELSE LET m == re_search(regexp, output)
                    IN IF m = NoMatch THEN Raise("ValueError")
                       ELSE IF ~regexp.named THEN Raise("IndexError")
                       ELSE Return(FormatVersion(prefix,
                                SubSeq(output, m.gstart, m.gend), suffix))

\* The mutant of ExceptHandler that lets every exception through.
ExceptHandlerReraise(res, raise_on_error) == res

\* except Exception as ex: raise ex if raise_on_error else return None
ExceptHandler(res, raise_on_error) ==
    IF res.kind = "raise" /\ ~raise_on_error THEN Return(None) ELSE res

get_command_version_string(cmd, regexp, prefix, suffix, use_stderr, encoding, raise_on_error, e) ==
    ExceptHandler(TryBody(cmd, regexp, prefix, suffix, use_stderr, encoding, e),
                  raise_on_error)

-----------------------------------------------------------------------------
\* Callers of get_command_version_string: the arguments and the machines tried

MaxOutputLen == 2

S_tool == <<"t", "o", "o", "l">>

RE_V_DOTTED ==      \* v(?P<version>(\d+\.)*\d+), the docstring's example
    [anchored |-> FALSE, pre |-> <<"v">>, cls |-> "dotted", named |-> TRUE]
RE_DIGITS ==        \* (?P<version>\d+(\.\d+)*)
    [anchored |-> FALSE, pre |-> <<>>, cls |-> "dotted", named |-> TRUE]
RE_V_NONSPACE ==    \* v(?P<version>\S+)
    [anchored |-> FALSE, pre |-> <<"v">>, cls |-> "nonspace", named |-> TRUE]
RE_UNNAMED ==       \* v((\d+\.)*\d+), no group named 'version'
    [anchored |-> FALSE, pre |-> <<"v">>, cls |-> "dotted", named |-> FALSE]

Regexps == {RE_V_DOTTED, RE_DIGITS, RE_V_NONSPACE, RE_UNNAMED}

Cmds == {[shell |-> s, argv0 |-> S_tool] : s \in BOOLEAN}
Affixes == {<<<<>>, <<>>>>, <<S_tool \o <<" ">>, <<"!">>>>}
UseStderr == {"None", "True", "False"}
Encodings == {"utf-8", "latin-1"}
ExitCodes == {0, 1}
Shells == {"dash", "bash"}

OutputAlphabet == {Ord["v"], Ord["1"], Ord["."], Ord[" "]} \cup NonAsciiBytes
BoundedBytes == UNION {[1..n -> OutputAlphabet] : n \in 0..MaxOutputLen}
S_tool_v231 == <<"t", "o", "o", "l", " ", "v", "2", ".", "3", ".", "1">>
OutputPairs ==
    {<<o, e>> \in BoundedBytes \X BoundedBytes : Len(o) + Len(e) <= MaxOutputLen}
    \cup {<<Bytes(S_tool_v231 \o <<"\n">>), <<>>>>, <<<<>>, Bytes(S_tool_v231 \o <<"\n">>)>>}

Envs ==
    {[found |-> TRUE, stdout |-> oe[1], stderr |-> oe[2], returncode |-> rc, sh |-> "dash"] :
        oe \in OutputPairs, rc \in ExitCodes}
    \cup {[found |-> FALSE, stdout |-> <<>>, stderr |-> <<>>, returncode |-> 0, sh |-> s] :
        s \in Shells}

NoCall == [cmd |-> [shell |-> FALSE, argv0 |-> <<>>], regexp |-> RE_V_DOTTED,
           prefix |-> <<>>, suffix |-> <<>>, use_stderr |-> "None",
           encoding |-> "utf-8", raise_on_error |-> FALSE]
NoEnv == [found |-> FALSE, stdout |-> <<>>, stderr |-> <<>>, returncode |-> 0, sh |-> "dash"]

NoProc == Process(<<>>, <<>>, 0)

ProbeIdle ==
    /\ pc = "idle"
    /\ call = NoCall
    /\ env = NoEnv
    /\ proc = NoProc
    /\ outcome = Return(None)

\* A caller calls get_command_version_string(cmd, regexp, prefix=, suffix=,
\* use_stderr=, encoding=, raise_on_error=).
Call ==
    /\ pc = "idle"
    /\ \E cmd \in Cmds, regexp \in Regexps, af \in Affixes, use_stderr \in UseStderr,
          encoding \in Encodings, raise_on_error \in BOOLEAN :
            call' = [cmd |-> cmd, regexp |-> regexp, prefix |-> af[1], suffix |-> af[2],
                     use_stderr |-> use_stderr, encoding |-> encoding,
                     raise_on_error |-> raise_on_error]
    /\ pc' = "called"
    /\ env' = NoEnv
    /\ proc' = NoProc
    /\ outcome' = Return(None)
    /\ UNCHANGED <<loadVars, listerVars>>

\* The function runs to its end on a machine e.
Run ==
    /\ pc = "called"
    /\ \E e \in Envs :
        /\ env' = e
        /\ proc' = Popen(call.cmd, e)
        /\ outcome' = get_command_version_string(call.cmd, call.regexp, call.prefix,
                          call.suffix, call.use_stderr, call.encoding,
                          call.raise_on_error, e)
    /\ pc' = IF outcome'.kind = "raise" THEN "raised" ELSE "returned"
    /\ UNCHANGED <<call, loadVars, listerVars>>

\* The caller takes the result (or the exception) and goes on.
Finish ==
    /\ pc \in {"returned", "raised"}
    /\ pc' = "idle"
    /\ call' = NoCall
    /\ env' = NoEnv
    /\ proc' = NoProc
    /\ outcome' = Return(None)
    /\ UNCHANGED <<loadVars, listerVars>>

ProbeNext == Call \/ Run \/ Finish

-----------------------------------------------------------------------------
\* Loading the module tool_versions (lines 67-100)

\* The arguments of the fourteen probes, in the order of the statements. A str
\* command is run by the shell, the list command of ASCP directly.
ToolSpecs == <<
    \* line 72: [ascp_path, '--version'], 'ascp version\s+(?P<version>\S+)'
    [key |-> "ASCP",
     cmd |-> [shell |-> FALSE, argv0 |-> <<"a", "s", "c", "p">>],
     regexp |-> [anchored |-> FALSE, cls |-> "nonspace", named |-> TRUE,
                 pre |-> <<"a", "s", "c", "p", " ", "v", "e", "r", "s", "i", "o", "n">> \o <<WS>>],
     prefix |-> <<"a", "s", "c", "p", " ">>],
    \* line 73: 'bedtools --version', 'bedtools\s+(?P<version>\S+)'
    [key |-> "BEDTOOLS",
     cmd |-> [shell |-> TRUE, argv0 |-> <<"b", "e", "d", "t", "o", "o", "l", "s">>],
     regexp |-> [anchored |-> FALSE, cls |-> "nonspace", named |-> TRUE,
                 pre |-> <<"b", "e", "d", "t", "o", "o", "l", "s">> \o <<WS>>],
     prefix |-> <<"b", "e", "d", "t", "o", "o", "l", "s", " ">>],
    \* line 74: 'bowtie2 --version', 'version\s+(?P<version>\S+)'
    [key |-> "BOWTIE2",
     cmd |-> [shell |-> TRUE, argv0 |-> <<"b", "o", "w", "t", "i", "e", "2">>],
     regexp |-> [anchored |-> FALSE, cls |-> "nonspace", named |-> TRUE,
                 pre |-> <<"v", "e", "r", "s", "i", "o", "n">> \o <<WS>>],
     prefix |-> <<"b", "o", "w", "t", "i", "e", "2", " ">>],
    \* line 75: 'cufflinks --help', 'cufflinks v(?P<version>\S+)'
    [key |-> "CUFFLINKS",
     cmd |-> [shell |-> TRUE, argv0 |-> <<"c", "u", "f", "f", "l", "i", "n", "k", "s">>],
     regexp |-> [anchored |-> FALSE, cls |-> "nonspace", named |-> TRUE,
                 pre |-> <<"c", "u", "f", "f", "l", "i", "n", "k", "s", " ", "v">>],
     prefix |-> <<"c", "u", "f", "f", "l", "i", "n", "k", "s", " ">>],
    \* line 76: 'epic --version', 'epic\s+(?P<version>\S+)'
    [key |-> "EPIC",
     cmd |-> [shell |-> TRUE, argv0 |-> <<"e", "p", "i", "c">>],
     regexp |-> [anchored |-> FALSE, cls |-> "nonspace", named |-> TRUE,
                 pre |-> <<"e", "p", "i", "c">> \o <<WS>>],
     prefix |-> <<"e", "p", "i", "c", " ">>],
    \* line 77: 'fastq-sort --version', '(?P<version>\d+(\.\d+)*)'
    [key |-> "FASTQ_TOOLS",
     cmd |-> [shell |-> TRUE, argv0 |-> <<"f", "a", "s", "t", "q", "-", "s", "o", "r", "t">>],
     regexp |-> [anchored |-> FALSE, cls |-> "dotted", named |-> TRUE,
                 pre |-> <<>>],
     prefix |-> <<"f", "a", "s", "t", "q", "-", "t", "o", "o", "l", "s", " ">>],
    \* line 78: 'hisat2 --version', 'version\s+(?P<version>\S+)'
    [key |-> "HISAT2",
     cmd |-> [shell |-> TRUE, argv0 |-> <<"h", "i", "s", "a", "t", "2">>],
     regexp |-> [anchored |-> FALSE, cls |-> "nonspace", named |-> TRUE,
                 pre |-> <<"v", "e", "r", "s", "i", "o", "n">> \o <<WS>>],
     prefix |-> <<"h", "i", "s", "a", "t", "2", " ">>],
    \* line 79: 'idr --version', '(?P<version>\d+(\.\d+)*)'
    [key |-> "IDR",
     cmd |-> [shell |-> TRUE, argv0 |-> <<"i", "d", "r">>],
     regexp |-> [anchored |-> FALSE, cls |-> "dotted", named |-> TRUE,
                 pre |-> <<>>],
     prefix |-> <<"I", "D", "R", " ">>],
    \* line 80: 'kallisto', '^kallisto\s+(?P<version>\S+)'
    [key |-> "KALLISTO",
     cmd |-> [shell |-> TRUE, argv0 |-> <<"k", "a", "l", "l", "i", "s", "t", "o">>],
     regexp |-> [anchored |-> TRUE, cls |-> "nonspace", named |-> TRUE,
                 pre |-> <<"k", "a", "l", "l", "i", "s", "t", "o">> \o <<WS>>],
     prefix |-> <<"k", "a", "l", "l", "i", "s", "t", "o", " ">>],
    \* line 81: 'macs2 --version', 'macs2\s+(?P<version>\S+)'
    [key |-> "MACS",
     cmd |-> [shell |-> TRUE, argv0 |-> <<"m", "a", "c", "s", "2">>],
     regexp |-> [anchored |-> FALSE, cls |-> "nonspace", named |-> TRUE,
                 pre |-> <<"m", "a", "c", "s", "2">> \o <<WS>>],
     prefix |-> <<"m", "a", "c", "s", "2", " ">>],
    \* line 82: 'salmon --version', 'version\s+:\s+(?P<version>\S+)'
    [key |-> "SALMON",
     cmd |-> [shell |-> TRUE, argv0 |-> <<"s", "a", "l", "m", "o", "n">>],
     regexp |-> [anchored |-> FALSE, cls |-> "nonspace", named |-> TRUE,
                 pre |-> <<"v", "e", "r", "s", "i", "o", "n">> \o <<WS>> \o <<":">> \o <<WS>>],
     prefix |-> <<"s", "a", "l", "m", "o", "n", " ">>],
    \* line 83: 'samtools', 'Version:\s+(?P<version>\S+)'
    [key |-> "SAMTOOLS",
     cmd |-> [shell |-> TRUE, argv0 |-> <<"s", "a", "m", "t", "o", "o", "l", "s">>],
     regexp |-> [anchored |-> FALSE, cls |-> "nonspace", named |-> TRUE,
                 pre |-> <<"V", "e", "r", "s", "i", "o", "n", ":">> \o <<WS>>],
     prefix |-> <<"s", "a", "m", "t", "o", "o", "l", "s", " ">>],
    \* line 84: 'fastq-dump --version', ':\s+(?P<version>\S+)'
    [key |-> "SRATOOLKIT",
     cmd |-> [shell |-> TRUE, argv0 |-> <<"f", "a", "s", "t", "q", "-", "d", "u", "m", "p">>],
     regexp |-> [anchored |-> FALSE, cls |-> "nonspace", named |-> TRUE,
                 pre |-> <<":">> \o <<WS>>],
     prefix |-> <<"s", "r", "a", "t", "o", "o", "l", "k", "i", "t", " ">>],
    \* line 85: 'STAR --version', 'STAR_(?P<version>\S+)'
    [key |-> "STAR",
     cmd |-> [shell |-> TRUE, argv0 |-> <<"S", "T", "A", "R">>],
     regexp |-> [anchored |-> FALSE, cls |-> "nonspace", named |-> TRUE,
                 pre |-> <<"S", "T", "A", "R", "_">>],
     prefix |-> <<"S", "T", "A", "R", " ">>]
>>

Keys == {ToolSpecs[i].key : i \in 1..Len(ToolSpecs)}

\* d[k] = v
Assign(d, k, v) == [x \in DOMAIN d \cup {k} |-> IF x = k THEN v ELSE d[x]]

EmptyDict == [x \in {} |-> None]

\* What a probed tool may print: a line its regexp matches, on either stream,
\* a line it does not match, or nothing.
S_version == <<"2", ".", "1">>
S_usage == <<"u", "s", "a", "g", "e", "\n">>
Banner(regexp) ==
    [i \in 1..Len(regexp.pre) |-> IF regexp.pre[i] = WS THEN " " ELSE regexp.pre[i]]
        \o S_version \o <<"\n">>

ToolEnvs(spec, shell) ==
    {[found |-> TRUE, stdout |-> oe[1], stderr |-> oe[2], returncode |-> rc, sh |-> shell] :
        oe \in {<<Bytes(Banner(spec.regexp)), <<>>>>, <<<<>>, Bytes(Banner(spec.regexp))>>,
                <<Bytes(S_usage), <<>>>>, <<<<>>, <<>>>>},
        rc \in ExitCodes}
    \cup {[found |-> FALSE, stdout |-> <<>>, stderr |-> <<>>, returncode |-> 0, sh |-> shell]}

\* The R binding of the machine: installed or not, and whether the two queries
\* raise RRuntimeError (they can only be made when it is installed).
Rpy2States ==
    {[installed |-> FALSE, r_fails |-> FALSE, bioc_fails |-> FALSE]}
    \cup {[installed |-> TRUE, r_fails |-> f, bioc_fails |-> FALSE] : f \in BOOLEAN}
NoRpy2 == [installed |-> FALSE, r_fails |-> FALSE, bioc_fails |-> FALSE]

S_R_version == <<"R", " ", "3", ".", "4">>
S_Bioconductor == <<"B", "i", "o", "c", "o", "n", "d", "u", "c", "t", "o", "r", " ">>
S_bioc_version == <<"3", ".", "5">>

\* try: from rpy2.robjects import r; from rpy2.rinterface import RRuntimeError;
\*      <value>
\* except RRuntimeError: None
\* Without rpy2 the first import raises ImportError; matching it against the
\* except clause evaluates the name RRuntimeError, which was never bound, and
\* that raises NameError out of the statement.
TryR(m, query_fails, value) ==
    IF ~m.installed THEN Raise("NameError")
    ELSE IF query_fails THEN Return(None)
    ELSE Return(value)

LoadIdle ==
    /\ load_pc = "unloaded"
    /\ tool = 1
    /\ bin_sh = "dash"
    /\ SOFTWARE_VERSIONS = EmptyDict
    /\ rpy2 = NoRpy2
    /\ load_exc = NoExc

\* One of the statements of lines 72-85.
ProbeTool ==
    /\ load_pc = "probes"
    /\ tool <= Len(ToolSpecs)
    /\ \E e \in ToolEnvs(ToolSpecs[tool], bin_sh) :
        LET spec == ToolSpecs[tool]
            r == get_command_version_string(spec.cmd, spec.regexp, spec.prefix, <<>>,
                    "None", "utf-8", FALSE, e)
        IN IF r.kind = "raise"
           THEN /\ load_pc' = "failed"
                /\ load_exc' = r.exc
                /\ UNCHANGED <<tool, SOFTWARE_VERSIONS>>
           ELSE /\ SOFTWARE_VERSIONS' = Assign(SOFTWARE_VERSIONS, spec.key, r.value)
                /\ tool' = tool + 1
                /\ load_pc' = IF tool = Len(ToolSpecs) THEN "R" ELSE "probes"
                /\ UNCHANGED load_exc
    /\ UNCHANGED <<bin_sh, rpy2, probeVars, listerVars>>

\* Lines 88-93.
LoadR ==
    /\ load_pc = "R"
    /\ \E m \in Rpy2States :
        /\ rpy2' = m
        /\ LET r == TryR(m, m.r_fails, S_R_version)
           IN IF r.kind = "raise"
              THEN /\ load_pc' = "failed"
                   /\ load_exc' = r.exc
                   /\ UNCHANGED SOFTWARE_VERSIONS
              ELSE /\ SOFTWARE_VERSIONS' = Assign(SOFTWARE_VERSIONS, "R", r.value)
                   /\ load_pc' = "BIOC"
                   /\ UNCHANGED load_exc
    /\ UNCHANGED <<tool, bin_sh, probeVars, listerVars>>

\* Lines 95-100.
LoadBioc ==
    /\ load_pc = "BIOC"
    /\ \E f \in BOOLEAN :
        /\ rpy2' = [rpy2 EXCEPT !.bioc_fails = f]
        /\ LET r == TryR(rpy2, f, S_Bioconductor \o S_bioc_version)
           IN IF r.kind = "raise"
              THEN /\ load_pc' = "failed"
                   /\ load_exc' = r.exc
                   /\ UNCHANGED SOFTWARE_VERSIONS
              ELSE /\ SOFTWARE_VERSIONS' = Assign(SOFTWARE_VERSIONS, "BIOC", r.value)
                   /\ load_pc' = "loaded"
                   /\ UNCHANGED load_exc
    /\ UNCHANGED <<tool, bin_sh, probeVars, listerVars>>

LoadNext == ProbeTool \/ LoadR \/ LoadBioc

-----------------------------------------------------------------------------
\* list-python-modules.py

MaxDepth == 2       \* find . -maxdepth 2

\* Module names, as str.
M_os == <<"o", "s">>
M_sys == <<"s", "y", "s">>
M_re == <<"r", "e">>
M_future == <<"_", "_", "f", "u", "t", "u", "r", "e", "_", "_">>

\* A Python text is a sequence of top-level statements:
\*   import    import <name> or from <name> import ..., at top level
\*   future    from __future__ import ...
\*   def       def f(): import <name>, an import that is not at top level
\*   newline   an empty line
Import(name) == [kind |-> "import", name |-> name]
FutureImport == [kind |-> "future", name |-> M_future]
DefWithImport(name) == [kind |-> "def", name |-> name]
Newline == [kind |-> "newline", name |-> <<>>]

Texts ==
    {<<Import(M_os)>>,
     <<Import(M_sys), Import(M_os)>>,
     <<FutureImport, Import(M_re)>>,
     <<DefWithImport(M_re), Import(M_sys)>>}

\* The directory tree: the candidate paths, their depth below '.', and what is
\* at each: nothing, a readable file, or an entry open() fails on.
PyPaths == {"./a.py", "./lib/b.py", "./lib/x/c.py"}
SnakePaths == {"./Snakefile"}
Depth == "./a.py" :> 1 @@ "./lib/b.py" :> 2 @@ "./lib/x/c.py" :> 3 @@ "./Snakefile" :> 1

Absent == [state |-> "absent", text |-> <<>>]
Unreadable == [state |-> "unreadable", text |-> <<>>]
File(text) == [state |-> "file", text |-> text]
\* A workflow file snakemake cannot compile.
BadWorkflow == [state |-> "bad", text |-> <<>>]

FileSystems ==
    [find_ok : BOOLEAN,
     snakemake_installed : BOOLEAN,
     py : [PyPaths -> {Absent, Unreadable} \cup {File(t) : t \in Texts}],
     snake : [SnakePaths -> {Absent, BadWorkflow, File(<<Import(M_os)>>)}]]

NoFs ==
    [find_ok |-> TRUE, snakemake_installed |-> TRUE,
     py |-> [p \in PyPaths |-> Absent], snake |-> [p \in SnakePaths |-> Absent]]

\* find . -maxdepth 2 -name <pattern>: the paths that exist, at depth <= 2.
Matches(tree) == {p \in DOMAIN tree : tree[p].state # "absent" /\ Depth[p] <= MaxDepth}

\* All orders find may list a set of paths in.
Orders(S) == {o \in [1..Cardinality(S) -> S] : \A i, j \in DOMAIN o : i # j => o[i] # o[j]}

\* The output of find: every path followed by a newline.
RECURSIVE FindOutput(_)
FindOutput(paths) ==
    IF paths = <<>> THEN <<>> ELSE <<Head(paths), "\n">> \o FindOutput(Tail(paths))

\* str.strip() over a text of paths and newlines (no path is blank).
RECURSIVE Strip(_)
Strip(text) ==
    IF text = <<>> THEN <<>>
    ELSE IF Head(text) = "\n" THEN Strip(Tail(text))
    ELSE IF text[Len(text)] = "\n" THEN Strip(SubSeq(text, 1, Len(text) - 1))
    ELSE text

\* str.split('\n'): the pieces between the newlines; the empty text has one
\* piece, the empty string. No two paths are adjacent in the text.
RECURSIVE Split(_)
Split(text) ==
    IF text = <<>> THEN <<"">>
    ELSE IF Head(text) = "\n" THEN <<"">> \o Split(Tail(text))
    ELSE IF Len(text) = 1 THEN <<Head(text)>>
    ELSE <<Head(text)>> \o Split(Tail(Tail(text)))

\* check_output(...).decode(...).strip().split('\n')
StripSplit(out) == Split(Strip(out))

\* open(pf, mode='rt').read()
CanOpen(tree, pf) == pf \in DOMAIN tree /\ tree[pf].state = "file"

\* snakemake --print-compilation --snakefile sf: the compiled text on stdout
\* and the exit status; nothing is printed when there is no such workflow or
\* it does not compile.
Snakemake(tree, sf) ==
    IF sf \in DOMAIN tree /\ tree[sf].state = "file"
    THEN [stdout |-> tree[sf].text, returncode |-> 0]
    ELSE [stdout |-> <<>>, returncode |-> 1]

\* compile(): a from __future__ import after any other statement is a
\* SyntaxError.
SyntaxError(text) ==
    \E i \in 1..Len(text) :
        /\ text[i].kind = "future"
        /\ \E j \in 1..(i - 1) : text[j].kind \notin {"future", "newline"}

\* The instructions of one top-level statement; the body of a def is another
\* code object, which dis.get_instructions does not enter.
Instructions(stmt) ==
    CASE stmt.kind = "import" ->
            <<[opname |-> "IMPORT_NAME", argval |-> stmt.name],
              [opname |-> "STORE_NAME", argval |-> stmt.name]>>
      [] stmt.kind = "future" ->
            <<[opname |-> "IMPORT_NAME", argval |-> stmt.name],
              [opname |-> "IMPORT_FROM", argval |-> <<>>],
              [opname |-> "STORE_NAME", argval |-> <<>>]>>
      [] stmt.kind = "def" ->
            <<[opname |-> "MAKE_FUNCTION", argval |-> <<>>],
              [opname |-> "STORE_NAME", argval |-> <<>>]>>
      [] stmt.kind = "newline" -> <<>>

RECURSIVE get_instructions(_)
get_instructions(text) ==
    IF text = <<>> THEN <<>>
    ELSE Instructions(Head(text)) \o get_instructions(Tail(text))

\* { x.argval for x in instructions if x.opname == 'IMPORT_NAME' }
ImportNames(instrs) ==
    {instrs[i].argval : i \in {j \in 1..Len(instrs) : instrs[j].opname = "IMPORT_NAME"}}

\* str comparison: by code point, a proper prefix first.
RECURSIVE StrLeq(_, _)
StrLeq(a, b) ==
    IF a = <<>> THEN TRUE
    ELSE IF b = <<>> THEN FALSE
    ELSE IF Ord[Head(a)] # Ord[Head(b)] THEN Ord[Head(a)] < Ord[Head(b)]
    ELSE StrLeq(Tail(a), Tail(b))

RECURSIVE sorted(_)
sorted(S) ==
    IF S = {} THEN <<>>
    ELSE LET m == CHOOSE x \in S : \A y \in S : StrLeq(x, y)
         IN <<m>> \o sorted(S \ {m})

\* print('\n'.join(names)): the lines written; one empty line for no name.
PrintJoined(names) == IF names = <<>> THEN <<<<>>>> ELSE names

ListerIdle ==
    /\ lister_pc = "idle"
    /\ fs = NoFs
    /\ python_files = <<>>
    /\ snakefiles = <<>>
    /\ idx = 1
    /\ tempf = <<>>
    /\ opened = <<>>
    /\ invoked = <<>>
    /\ compiler_failed = {}
    /\ printed = <<>>
    /\ lister_exc = NoExc

Abort(exc) ==
    /\ lister_pc' = "aborted"
    /\ lister_exc' = exc

\* Lines 10-11.
FindPython ==
    /\ lister_pc = "find_py"
    /\ IF ~fs.find_ok
       THEN Abort("CalledProcessError") /\ UNCHANGED python_files
       ELSE /\ \E o \in Orders(Matches(fs.py)) :
                python_files' = StripSplit(FindOutput(o))
            /\ lister_pc' = "find_snake"
            /\ UNCHANGED lister_exc
    /\ UNCHANGED <<fs, snakefiles, idx, tempf, opened, invoked, compiler_failed, printed>>
    /\ UNCHANGED <<probeVars, loadVars>>

\* Lines 12-13.
FindSnake ==
    /\ lister_pc = "find_snake"
    /\ \E o \in Orders(Matches(fs.snake)) :
        snakefiles' = StripSplit(FindOutput(o))
    /\ lister_pc' = "write_py"
    /\ UNCHANGED <<fs, python_files, idx, tempf, opened, invoked, compiler_failed,
                   printed, lister_exc>>
    /\ UNCHANGED <<probeVars, loadVars>>

\* Lines 16-18: one iteration of the loop over python_files, or its end.
WritePython ==
    /\ lister_pc = "write_py"
    /\ IF idx > Len(python_files)
       THEN /\ lister_pc' = "write_snake"
            /\ idx' = 1
            /\ UNCHANGED <<tempf, opened, lister_exc>>
       ELSE LET pf == python_files[idx]
            IN /\ opened' = Append(opened, pf)
               /\ IF CanOpen(fs.py, pf)
                  THEN /\ tempf' = tempf \o fs.py[pf].text \o <<Newline>>
                       /\ idx' = idx + 1
                       /\ UNCHANGED <<lister_pc, lister_exc>>
                  ELSE Abort("OSError") /\ UNCHANGED <<tempf, idx>>
    /\ UNCHANGED <<fs, python_files, snakefiles, invoked, compiler_failed, printed>>
    /\ UNCHANGED <<probeVars, loadVars>>

\* Lines 19-22: one iteration of the loop over snakefiles, or its end. Popen
\* raises when snakemake is not installed; the exit status of snakemake is not
\* looked at.
WriteSnake ==
    /\ lister_pc = "write_snake"
    /\ IF idx > Len(snakefiles)
       THEN /\ lister_pc' = "dis"
            /\ UNCHANGED <<idx, tempf, invoked, compiler_failed, lister_exc>>
       ELSE LET sf == snakefiles[idx]
            IN /\ invoked' = Append(invoked, sf)
               /\ IF ~fs.snakemake_installed
                  THEN /\ Abort("FileNotFoundError")
                       /\ compiler_failed' = compiler_failed \cup {sf}
                       /\ UNCHANGED <<tempf, idx>>
                  ELSE LET p == Snakemake(fs.snake, sf)
                       IN /\ tempf' = tempf \o p.stdout \o <<Newline>>
                          /\ compiler_failed' =
                                IF p.returncode # 0 THEN compiler_failed \cup {sf}
                                ELSE compiler_failed
                          /\ idx' = idx + 1
                          /\ UNCHANGED <<lister_pc, lister_exc>>
    /\ UNCHANGED <<fs, python_files, snakefiles, opened, printed>>
    /\ UNCHANGED <<probeVars, loadVars>>

\* Lines 23-28.
Disassemble ==
    /\ lister_pc = "dis"
    /\ IF SyntaxError(tempf)
       THEN Abort("SyntaxError") /\ UNCHANGED printed
       ELSE /\ printed' = PrintJoined(sorted(ImportNames(get_instructions(tempf))))
            /\ lister_pc' = "done"
            /\ UNCHANGED lister_exc
    /\ UNCHANGED <<fs, python_files, snakefiles, idx, tempf, opened, invoked,
                   compiler_failed>>
    /\ UNCHANGED <<probeVars, loadVars>>

ListerNext == FindPython \/ FindSnake \/ WritePython \/ WriteSnake \/ Disassemble

-----------------------------------------------------------------------------
\* The specifications

ProbeInit == ProbeIdle /\ LoadIdle /\ ListerIdle

\* Calls of get_command_version_string.
SpecProbe == ProbeInit /\ [][ProbeNext]_vars

LoadInit ==
    /\ ProbeIdle /\ ListerIdle
    /\ load_pc = "probes"
    /\ tool = 1
    /\ bin_sh \in Shells
    /\ SOFTWARE_VERSIONS = EmptyDict
    /\ rpy2 = NoRpy2
    /\ load_exc = NoExc

\* One load of the module tool_versions.
SpecLoad == LoadInit /\ [][LoadNext]_vars

ListerInit ==
    /\ ProbeIdle /\ LoadIdle
    /\ lister_pc = "find_py"
    /\ fs \in FileSystems
    /\ python_files = <<>>
    /\ snakefiles = <<>>
    /\ idx = 1
    /\ tempf = <<>>
    /\ opened = <<>>
    /\ invoked = <<>>
    /\ compiler_failed = {}
    /\ printed = <<>>
    /\ lister_exc = NoExc

\* One run of list-python-modules.py.
SpecLister == ListerInit /\ [][ListerNext]_vars

-----------------------------------------------------------------------------
\* What the claims speak of, stated without the search algorithm

Finished == pc \in {"returned", "raised"}

\* The command's process was started (Popen did not raise).
Launched == call.cmd.shell \/ env.found

\* The captured streams of the started process.
CapturedStdout == proc.stdout
CapturedStderr == proc.stderr

\* The bytes the claim says are searched.
ClaimedBytes ==
    CASE call.use_stderr = "None" -> CapturedStdout \o CapturedStderr
      [] call.use_stderr = "True" -> CapturedStderr
      [] call.use_stderr = "False" -> CapturedStdout

Decodable(bytes, encoding) ==
    encoding = "latin-1" \/ \A i \in 1..Len(bytes) : bytes[i] < 128

\* The language of pre: literal characters, \s+ as one or more blanks.
RECURSIVE PreLang(_, _)
PreLang(pre, s) ==
    IF pre = <<>> THEN s = <<>>
    ELSE IF Head(pre) = WS
    THEN \E n \in 1..Len(s) :
            /\ \A i \in 1..n : s[i] \in {" ", "\n"}
            /\ PreLang(Tail(pre), SubSeq(s, n + 1, Len(s)))
    ELSE s # <<>> /\ Head(s) = Head(pre) /\ PreLang(Tail(pre), Tail(s))

\* The language of the group.
GroupLang(cls, s) ==
    /\ s # <<>>
    /\ IF cls = "nonspace"
       THEN \A i \in 1..Len(s) : s[i] \notin {" ", "\n"}
       ELSE /\ \A i \in 1..Len(s) : s[i] \in Digits \cup {"."}
            /\ s[1] \in Digits /\ s[Len(s)] \in Digits
            /\ \A i \in 1..(Len(s) - 1) : ~(s[i] = "." /\ s[i + 1] = ".")

\* The pairs <<j, k>> such that the regexp matches text[i..k], capturing text[j..k].
SpansAt(regexp, text, i) ==
    {jk \in (i..Len(text)) \X (i..Len(text)) :
        /\ jk[1] <= jk[2]
        /\ PreLang(regexp.pre, SubSeq(text, i, jk[1] - 1))
        /\ GroupLang(regexp.cls, SubSeq(text, jk[1], jk[2]))}

MatchStarts(regexp, text) ==
    {i \in 1..Len(text) :
        (regexp.anchored => i = 1) /\ SpansAt(regexp, text, i) # {}}

\* The text the group captures in the leftmost match, the quantifiers greedy.
Captured(regexp, text) ==
    LET i0 == CHOOSE i \in MatchStarts(regexp, text) :
                \A i2 \in MatchStarts(regexp, text) : i <= i2
        jk == CHOOSE x \in SpansAt(regexp, text, i0) :
                \A y \in SpansAt(regexp, text, i0) : y[2] <= x[2]
    IN SubSeq(text, jk[1], jk[2])

ClaimedText == decode(ClaimedBytes, call.encoding)

RegexpMatches ==
    /\ Launched
    /\ Decodable(ClaimedBytes, call.encoding)
    /\ MatchStarts(call.regexp, ClaimedText) # {}

\* The failure modes the claims name.
FailureMode ==
    \/ ~env.found                                   \* the executable cannot be launched
    \/ ~Decodable(ClaimedBytes, call.encoding)      \* the output cannot be decoded
    \/ ~RegexpMatches                               \* the regexp does not match
    \/ ~call.regexp.named                           \* no named group 'version'

\* The call of the state, on another machine.
CallOn(e) ==
    get_command_version_string(call.cmd, call.regexp, call.prefix, call.suffix,
        call.use_stderr, call.encoding, call.raise_on_error, e)

-----------------------------------------------------------------------------
\* Claims about get_command_version_string

\* C1: with raise_on_error=False the function never raises, and in every
\* failure mode (the executable cannot be launched, the output cannot be
\* decoded, the regexp does not match, the regexp has no group 'version') it
\* returns None.
C1_SuppressedFailuresReturnNone ==
    (Finished /\ ~call.raise_on_error) =>
        /\ outcome.kind = "return"
        /\ FailureMode => outcome = Return(None)

\* C2: when the command is launched, its selected output decodes and the regexp
\* is found anywhere in the text, the result is prefix + captured 'version'
\* text + suffix; output 'tool v2.3.1' with v(?P<version>(\d+\.)*\d+) and prefix
\* 'tool ' gives 'tool 2.3.1'.
C2_ReturnsPrefixVersionSuffix ==
    /\ (Finished /\ RegexpMatches /\ call.regexp.named) =>
            outcome = Return(call.prefix \o Captured(call.regexp, ClaimedText)
                                \o call.suffix)
    /\ (/\ Finished /\ Launched /\ call.regexp = RE_V_DOTTED
        /\ call.prefix = S_tool \o <<" ">> /\ call.suffix = <<"!">>
        /\ call.use_stderr # "True" /\ CapturedStdout = Bytes(S_tool_v231 \o <<"\n">>)
        /\ CapturedStderr = <<>>) =>
            outcome = Return(<<"t", "o", "o", "l", " ", "2", ".", "3", ".", "1", "!">>)

C2_Witness ==
    /\ pc = "returned" /\ env.found /\ call.regexp = RE_V_DOTTED
    /\ call.use_stderr = "False" /\ env.stdout = Bytes(S_tool_v231 \o <<"\n">>)
    /\ outcome = Return(<<"t", "o", "o", "l", " ", "2", ".", "3", ".", "1", "!">>)

AltStreams == {<<>>, Bytes(<<"v", "1">>), <<255>>}

\* C3: the text searched depends on use_stderr alone: False searches stdout only
\* (stderr is irrelevant), True searches stderr only (stdout is irrelevant), None
\* searches stdout followed by stderr; so a version that is only on stderr is
\* not found with use_stderr=False, and the result is None when
\* raise_on_error=False.
C3_UseStderrSelectsStream ==
    (Finished /\ env.found) =>
        /\ call.use_stderr = "False" =>
              \A x \in AltStreams : CallOn([env EXCEPT !.stderr = x]) = outcome
        /\ call.use_stderr = "True" =>
              \A x \in AltStreams : CallOn([env EXCEPT !.stdout = x]) = outcome
        /\ call.use_stderr = "None" =>
              /\ CallOn([env EXCEPT !.stdout = env.stdout \o env.stderr,
                                    !.stderr = <<>>]) = outcome
              /\ (Decodable(env.stdout \o env.stderr, call.encoding)
                  /\ MatchStarts(call.regexp,
                        decode(env.stdout \o env.stderr, call.encoding)) # {}
                  /\ call.regexp.named) => outcome.value # None
        /\ (/\ call.use_stderr = "False" /\ ~call.raise_on_error
            /\ Decodable(env.stdout, call.encoding)
            /\ MatchStarts(call.regexp, decode(env.stdout, call.encoding)) = {}) =>
              outcome = Return(None)

C3_Witness ==
    /\ pc = "returned" /\ env.found /\ call.use_stderr = "False"
    /\ ~call.raise_on_error /\ call.regexp = RE_V_DOTTED
    /\ env.stdout = <<>> /\ env.stderr = Bytes(S_tool_v231 \o <<"\n">>)
    /\ outcome = Return(None)

\* C4: the exit status of the probed process never influences the result: with
\* the same captured stdout and stderr the outcome is the same for every exit
\* status, and a command that exits non-zero but prints a matching version
\* yields a non-null result.
C4_ExitCodeNeverInspected ==
    (Finished /\ env.found) =>
        /\ \A rc \in ExitCodes \cup {2, 127, 255} :
              CallOn([env EXCEPT !.returncode = rc]) = outcome
        /\ (env.returncode # 0 /\ RegexpMatches /\ call.regexp.named) =>
              (outcome.kind = "return" /\ outcome.value # None)

C4_Witness ==
    /\ pc = "returned" /\ env.found /\ env.returncode # 0
    /\ outcome.value # None

\* C5: with raise_on_error=True the function never returns None, and on any
\* failure (launch failure, decode failure, regexp not matching, missing group
\* 'version') the exception propagates to the caller.
C5_RaiseOnErrorPropagates ==
    (Finished /\ call.raise_on_error) =>
        /\ outcome # Return(None)
        /\ FailureMode => outcome.kind = "raise"

-----------------------------------------------------------------------------
\* Claims about loading tool_versions

HasPrefix(s, p) == Len(s) >= Len(p) /\ SubSeq(s, 1, Len(p)) = p

RSectionRun == load_pc \in {"BIOC", "loaded"} \/ (load_pc = "failed" /\ tool > Len(ToolSpecs))
LoadEnded == load_pc \in {"loaded", "failed"}

\* C6: when the R binding (rpy2) is absent, or the runtime raises its runtime
\* error, loading the module still completes and SOFTWARE_VERSIONS['R'] and
\* SOFTWARE_VERSIONS['BIOC'] are None.
C6_RAndBiocNoneWithoutRuntime ==
    (LoadEnded /\ RSectionRun) =>
        /\ ~rpy2.installed =>
              /\ load_pc = "loaded"
              /\ {"R", "BIOC"} \subseteq DOMAIN SOFTWARE_VERSIONS
              /\ SOFTWARE_VERSIONS["R"] = None
              /\ SOFTWARE_VERSIONS["BIOC"] = None
        /\ (rpy2.installed /\ rpy2.r_fails) =>
              (load_pc = "loaded" /\ SOFTWARE_VERSIONS["R"] = None)
        /\ (rpy2.installed /\ rpy2.bioc_fails) =>
              (load_pc = "loaded" /\ SOFTWARE_VERSIONS["BIOC"] = None)

C10_Inv ==
    /\ load_pc = "probes" =>
          DOMAIN SOFTWARE_VERSIONS = {ToolSpecs[j].key : j \in 1..(tool - 1)}
    /\ load_pc \notin {"unloaded", "probes"} =>
          \A j \in 1..Len(ToolSpecs) :
              /\ ToolSpecs[j].key \in DOMAIN SOFTWARE_VERSIONS
              /\ \/ SOFTWARE_VERSIONS[ToolSpecs[j].key] = None
                 \/ HasPrefix(SOFTWARE_VERSIONS[ToolSpecs[j].key], ToolSpecs[j].prefix)

C10_Step ==
    /\ \A k \in DOMAIN SOFTWARE_VERSIONS :
          k \in DOMAIN SOFTWARE_VERSIONS' /\ SOFTWARE_VERSIONS'[k] = SOFTWARE_VERSIONS[k]
    /\ load_pc = "probes" =>
          /\ DOMAIN SOFTWARE_VERSIONS' = DOMAIN SOFTWARE_VERSIONS \cup {ToolSpecs[tool].key}
          /\ ToolSpecs[tool].key \notin DOMAIN SOFTWARE_VERSIONS
          /\ tool' = tool + 1

\* C10: the fourteen probes run one after another in the order of the
\* statements, every key is written once and its value never changes
\* afterwards, a probe that fails (None) does not stop the later ones, and once
\* the last probe is done all fourteen keys are present, each None or a string
\* that begins with the prefix of its tool.
C10_ProbesSequentialWriteOnce == []C10_Inv /\ [][C10_Step]_vars

C10_Witness ==
    /\ load_pc = "loaded"
    /\ SOFTWARE_VERSIONS["ASCP"] = None
    /\ SOFTWARE_VERSIONS["KALLISTO"] = None
    /\ SOFTWARE_VERSIONS["BEDTOOLS"] # None
    /\ SOFTWARE_VERSIONS["STAR"] = <<"S", "T", "A", "R", " ", "2", ".", "1">>

-----------------------------------------------------------------------------
\* Claims about list-python-modules.py

PyMatches == Matches(fs.py)
SnakeMatches == Matches(fs.snake)
Enumerated == lister_pc \notin {"idle", "find_py", "find_snake"}
ListerEnded == lister_pc \in {"done", "aborted"}

\* Every file found can be read, every workflow found compiles, and the tools
\* that are needed for them are there.
InputsFine ==
    /\ fs.find_ok
    /\ \A p \in PyMatches : fs.py[p].state = "file"
    /\ \A p \in SnakeMatches : fs.snake[p].state = "file"
    /\ SnakeMatches # {} => fs.snakemake_installed

NoFutureImport ==
    \A p \in PyMatches : \A i \in 1..Len(fs.py[p].text) : fs.py[p].text[i].kind # "future"

\* The target names of the top-level import statements of a text.
TopLevelImports(text) ==
    {text[i].name : i \in {j \in 1..Len(text) : text[j].kind \in {"import", "future"}}}

ExpectedNames ==
    UNION ({TopLevelImports(fs.py[p].text) : p \in PyMatches}
           \cup {TopLevelImports(fs.snake[p].text) : p \in SnakeMatches})

\* C7: when no file matches one of the two patterns, the enumeration for that
\* pattern is the empty list (no file is opened, no compiler is invoked for it)
\* and the run does not fail.
C7_ZeroMatchesTolerated ==
    /\ (Enumerated /\ PyMatches = {}) => (python_files = <<>> /\ opened = <<>>)
    /\ (Enumerated /\ SnakeMatches = {}) => (snakefiles = <<>> /\ invoked = <<>>)
    /\ (ListerEnded /\ InputsFine /\ NoFutureImport
            /\ (PyMatches = {} \/ SnakeMatches = {})) => lister_pc = "done"

\* C8: for any corpus of source files the lister prints exactly the target
\* names of their top-level import statements: every one of them, no other
\* name, each once, in ascending order.
C8_PrintsSortedImportSet ==
    (ListerEnded /\ InputsFine) =>
        /\ lister_pc = "done"
        /\ \A n \in ExpectedNames : \E i \in 1..Len(printed) : printed[i] = n
        /\ \A i \in 1..Len(printed) :
              printed[i] \in ExpectedNames \/ (ExpectedNames = {} /\ printed = <<<<>>>>)
        /\ \A i, j \in 1..Len(printed) :
              i < j => (printed[i] # printed[j] /\ StrLeq(printed[i], printed[j]))

\* C9: a failure at any step (a source file that cannot be read or is missing,
\* a workflow compiler invocation that fails) aborts the listing: no module
\* list is printed.
C9_AnyFailureAborts ==
    (/\ ListerEnded
     /\ \/ \E i \in 1..Len(opened) : ~CanOpen(fs.py, opened[i])
        \/ \E sf \in compiler_failed : sf \in SnakeMatches) =>
        lister_pc = "aborted"

====
